---- MODULE Spec2Model ----
(***************************************************************************)
(* A model of dinner.py: the dinner-invitation (maximum independent set)   *)
(* functions find_dislikes, generate_all_subsets, filter_bad_invites,      *)
(* filter_no_dislikes, invite_to_dinner and invite_to_dinner_optimized.    *)
(*                                                                         *)
(* A Python dict is modelled as the sequence of its items <<key, value>>   *)
(* in insertion order (the order `for person in friends` iterates in); a   *)
(* Python list is a sequence; a Python tuple (a, b) is <<a, b>>.           *)
(* Guest names are strings; Names lists them in alphabetical order, so     *)
(* the position of a name in Names decides Python's string comparison.     *)
(***************************************************************************)
EXTENDS Integers, Sequences, FiniteSets

VARIABLES
    friends,       \* the dislike mapping the caller passes
    dislikes,      \* the set find_dislikes returned
    all_subsets,   \* the caller's list of candidate subsets
    passed,        \* all_subsets as it was when handed to filter_bad_invites
    good_invites,  \* the list filter_bad_invites returned
    reduced,       \* the tuple filter_no_dislikes returned
    invite_list,   \* the list a selection function returned
    pc             \* the call that has been made

vars == <<friends, dislikes, all_subsets, passed, good_invites, reduced, invite_list, pc>>

\* ------------------------------------------------------------------ bounds
\* Most keys a generated mapping has.
MaxGuests == 3
\* Most dislike entries a generated mapping lists, over all its keys.
MaxDislikes == 3
\* Longest sequence of candidate subsets handed to filter_bad_invites.
MaxSubsets == 3

\* The guest names, in alphabetical order.
Names == <<"Alice", "Bob", "Cleo", "Don", "Eve">>

Guests == {Names[i] : i \in 1..MaxGuests}

\* Python's a < b on two of the names.
StrLess(a, b) ==
    (CHOOSE i \in 1..Len(Names) : Names[i] = a) < (CHOOSE i \in 1..Len(Names) : Names[i] = b)

\* ---------------------------------------------------- lists and dicts
\* x in lst
InList(x, lst) == \E i \in 1..Len(lst) : lst[i] = x

Elems(lst) == {lst[i] : i \in 1..Len(lst)}

\* list(friends.keys())
Keys(d) == [i \in 1..Len(d) |-> d[i][1]]

\* lst.remove(x): drops the first entry equal to x (FirstAt finds its place).
RECURSIVE FirstAt(_, _, _)
FirstAt(lst, x, i) == IF lst[i] = x THEN i ELSE FirstAt(lst, x, i + 1)

RemoveFirst(lst, x) ==
    LET k == FirstAt(lst, x, 1)
    IN  [i \in 1..(Len(lst) - 1) |-> IF i < k THEN lst[i] ELSE lst[i + 1]]

\* ------------------------------------------------------------ find_dislikes
\* The (person, dislike) pairs in the order the two nested loops visit them.
RECURSIVE Visits(_, _, _)
Visits(d, i, j) ==
    IF i > Len(d) THEN <<>>
    ELSE IF j > Len(d[i][2]) THEN Visits(d, i + 1, 1)
    ELSE <<(<<d[i][1], d[i][2][j]>>)>> \o Visits(d, i, j + 1)

\* A slip: the pair is added whether or not its reverse is already there.
AddAlways(person, dislike, found) == found \cup {<<person, dislike>>}

\* One pass of the inner loop body: the pair is added unless its reverse is there.
AddDislike(person, dislike, found) ==
    IF <<dislike, person>> \notin found
    THEN found \cup {<<person, dislike>>}
    ELSE found

RECURSIVE AddDislikes(_, _, _)
AddDislikes(visits, k, found) ==
    IF k > Len(visits) THEN found
    ELSE AddDislikes(visits, k + 1, AddDislike(visits[k][1], visits[k][2], found))

find_dislikes(d) == AddDislikes(Visits(d, 1, 1), 1, {})

\* ----------------------------------------------------- generate_all_subsets
\* A slip: the loop stops one short of 2^n.
RangeShort(n) == 2 ^ n - 1

\* range(2**n): how many numbers the outer loop converts.
RangeLen(n) == 2 ^ n

\* The inner loop from step j on: num is what is left of i, new_subset the
\* list built so far; guests are prepended, from the last key to the first.
RECURSIVE BuildSubset(_, _, _, _, _)
BuildSubset(friend_list, n, j, num, new_subset) ==
    IF j >= n THEN new_subset
    ELSE BuildSubset(friend_list, n, j + 1, num \div 2,
             IF num % 2 = 1
             THEN <<friend_list[(n - 1 - j) + 1]>> \o new_subset
             ELSE new_subset)

generate_all_subsets(d) ==
    LET friend_list == Keys(d)
        n == Len(d)
    IN  [k \in 1..RangeLen(n) |-> BuildSubset(friend_list, n, 0, k - 1, <<>>)]

\* ------------------------------------------------------- filter_bad_invites
\* A slip: only the first guest of the pair is looked for.
ViolatesFirstOnly(pair, set) == InList(pair[1], set)

\* A slip: `or` where the code has `and`.
ViolatesEither(pair, set) == InList(pair[1], set) \/ InList(pair[2], set)

\* pair[0] in set and pair[1] in set
Violates(pair, set) == InList(pair[1], set) /\ InList(pair[2], set)

\* The first loop: every subset is appended to bad_invites once for each pair
\* of find_dislikes(friends) it holds.
RECURSIVE BadInvites(_, _, _)
BadInvites(subsets, found, k) ==
    IF k > Len(subsets) THEN <<>>
    ELSE [i \in 1..Cardinality({pair \in found : Violates(pair, subsets[k])}) |-> subsets[k]]
         \o BadInvites(subsets, found, k + 1)

\* The second loop: each entry of bad_invites removes the first equal entry
\* still in good_invites, if there is one.
RECURSIVE RemoveBad(_, _, _)
RemoveBad(bad_invites, k, good) ==
    IF k > Len(bad_invites) THEN good
    ELSE RemoveBad(bad_invites, k + 1,
             IF InList(bad_invites[k], good)
             THEN RemoveFirst(good, bad_invites[k])
             ELSE good)

\* The list the function returns. good_invites is the list object all_subsets
\* names, so this is also what the caller's list holds after the call.
filter_bad_invites(subsets, d) ==
    RemoveBad(BadInvites(subsets, find_dislikes(d), 1), 1, subsets)

\* ------------------------------------------------------- filter_no_dislikes
\* friends[item] == []
NoDislikes(item) == item[2] = <<>>

HasDislikes(item) == ~NoDislikes(item)

\* (no_dislikes, new_friends)
filter_no_dislikes(d) ==
    <<Keys(SelectSeq(d, NoDislikes)), SelectSeq(d, HasDislikes)>>

\* ----------------------------------------------------------------- selection
\* A slip: a subset of equal size replaces the current one.
LongerOrEqual(potential_subset, current) == Len(potential_subset) >= Len(current)

\* len(potential_subset) > len(invite_list)
Longer(potential_subset, current) == Len(potential_subset) > Len(current)

\* The loop that keeps the subset which maximizes the number of invites.
RECURSIVE Largest(_, _, _)
Largest(good_subsets, k, current) ==
    IF k > Len(good_subsets) THEN current
    ELSE Largest(good_subsets, k + 1,
             IF Longer(good_subsets[k], current) THEN good_subsets[k] ELSE current)

invite_to_dinner(d) ==
    LET subsets == generate_all_subsets(d)
        good_subsets == filter_bad_invites(subsets, d)
    IN  Largest(good_subsets, 1, <<>>)

invite_to_dinner_optimized(d) ==
    LET better == filter_no_dislikes(d)
        bad_subsets == generate_all_subsets(better[2])
        good_subsets == filter_bad_invites(bad_subsets, d)
    IN  Largest(good_subsets, 1, <<>>) \o better[1]

\* ------------------------------------------------------------------- inputs
\* The lists over S of length at most n.
ListsUpTo(S, n) == UNION {[1..m -> S] : m \in 0..n}

\* The orders a mapping's keys can be inserted in: every list of distinct guests.
KeyLists ==
    {ks \in ListsUpTo(Guests, MaxGuests) : \A i, j \in 1..Len(ks) : ks[i] = ks[j] => i = j}

\* The mapping with keys ks whose dislike entries are vals, in order, the
\* k-th of them listed by the key at position owner[k] (owner never decreases).
MakeDict(ks, vals, owner) ==
    [i \in 1..Len(ks) |->
        <<ks[i],
          SubSeq(vals,
                 Cardinality({k \in 1..Len(vals) : owner[k] < i}) + 1,
                 Cardinality({k \in 1..Len(vals) : owner[k] <= i}))>>]

\* The ways to share t entries out among n keys.
Owners(t, n) == {o \in [1..t -> 1..n] : \A k \in 1..(t - 1) : o[k] <= o[k + 1]}

\* The guests of the mappings filter_bad_invites is called with on its own.
FilterGuests == <<"Alice", "Bob", "Cleo">>

\* The lists of distinct guests of lst that keep the order of lst.
SubLists(lst) ==
    {s \in ListsUpTo(Elems(lst), Len(lst)) :
        \A i, j \in 1..Len(s) : i < j => \E a, b \in 1..Len(lst) : a < b /\ lst[a] = s[i] /\ lst[b] = s[j]}

\* The mappings over FilterGuests in which every guest lists any of the others:
\* a pair is listed in one direction, in both, or not at all.
FilterDicts ==
    {[i \in 1..Len(FilterGuests) |-> <<FilterGuests[i], row[i]>>] :
        row \in {r \in [1..Len(FilterGuests) -> SubLists(FilterGuests)] :
                    \A i \in 1..Len(FilterGuests) : ~InList(FilterGuests[i], r[i])}}

\* The sequences of candidate subsets a caller passes: duplicates allowed.
\* The candidate subsets a caller lists: the guests in key order, and one pair
\* in the other order.
Candidates == SubLists(FilterGuests) \cup {<<FilterGuests[2], FilterGuests[1]>>}

\* ------------------------------------------------------------ state machine
\* The mapping is any whose listed dislikes are all keys, other than the key
\* that lists them: a pair may be listed in one direction, in both, or repeatedly.
Init ==
    /\ \E ks \in KeyLists, t \in 0..MaxDislikes :
          \E vals \in [1..t -> Elems(ks)], owner \in Owners(t, Len(ks)) :
             /\ \A k \in 1..t : vals[k] # ks[owner[k]]
             /\ friends = MakeDict(ks, vals, owner)
    /\ dislikes = {}
    /\ all_subsets = <<>>
    /\ passed = <<>>
    /\ good_invites = <<>>
    /\ reduced = <<>>
    /\ invite_list = <<>>
    /\ pc = "start"

\* The caller of filter_bad_invites alone holds a mapping and a list of subsets.
InitFilter ==
    /\ friends \in FilterDicts
    /\ dislikes = {}
    /\ \E m \in 0..MaxSubsets : all_subsets \in [1..m -> Candidates]
    /\ passed = <<>>
    /\ good_invites = <<>>
    /\ reduced = <<>>
    /\ invite_list = <<>>
    /\ pc = "caller"

FindDislikes ==
    /\ pc = "start"
    /\ dislikes' = find_dislikes(friends)
    /\ pc' = "find_dislikes"
    /\ UNCHANGED <<friends, all_subsets, passed, good_invites, reduced, invite_list>>

GenerateAllSubsets ==
    /\ pc = "start"
    /\ all_subsets' = generate_all_subsets(friends)
    /\ pc' = "generate_all_subsets"
    /\ UNCHANGED <<friends, dislikes, passed, good_invites, reduced, invite_list>>

\* good_invites = all_subsets binds a second name to the caller's list, so the
\* removals are made in the caller's list and the list returned is that list.
FilterBadInvites ==
    /\ pc \in {"caller", "generate_all_subsets"}
    /\ passed' = all_subsets
    /\ good_invites' = filter_bad_invites(all_subsets, friends)
    /\ all_subsets' = good_invites'
    /\ pc' = "filter_bad_invites"
    /\ UNCHANGED <<friends, dislikes, reduced, invite_list>>

FilterNoDislikes ==
    /\ pc = "start"
    /\ reduced' = filter_no_dislikes(friends)
    /\ pc' = "filter_no_dislikes"
    /\ UNCHANGED <<friends, dislikes, all_subsets, passed, good_invites, invite_list>>

InviteToDinner ==
    /\ pc = "start"
    /\ invite_list' = invite_to_dinner(friends)
    /\ pc' = "invite_to_dinner"
    /\ UNCHANGED <<friends, dislikes, all_subsets, passed, good_invites, reduced>>

InviteToDinnerOptimized ==
    /\ pc = "start"
    /\ invite_list' = invite_to_dinner_optimized(friends)
    /\ pc' = "invite_to_dinner_optimized"
    /\ UNCHANGED <<friends, dislikes, all_subsets, passed, good_invites, reduced>>

Next ==
    \/ FindDislikes
    \/ GenerateAllSubsets
    \/ FilterBadInvites
    \/ FilterNoDislikes
    \/ InviteToDinner
    \/ InviteToDinnerOptimized

Spec == Init /\ [][Next]_vars

NextFilter == FilterBadInvites

SpecFilter == InitFilter /\ [][NextFilter]_vars

\* ------------------------------------------------------------------- claims
\* The keys of the mapping, as a set.
KeySet == Elems(Keys(friends))

\* No pair of edges has both endpoints in the set S.
ValidFor(edges, S) == \A pair \in edges : ~(pair[1] \in S /\ pair[2] \in S)

\* A set of guests is valid when no pair of find_dislikes(friends) has both
\* endpoints in it.
ValidSet(S) == ValidFor(find_dislikes(friends), S)

\* A guest is entangled when some pair of find_dislikes(friends) names them.
Entangled(g) == \E pair \in find_dislikes(friends) : g = pair[1] \/ g = pair[2]

\* The subset the enumeration gives for the number i: bit j of i selects the
\* key at position N-1-j (counted from 0), and the keys keep their order.
EnumSubset(i) ==
    LET keys == Keys(friends)
        n == Len(keys)
        pos(g) == CHOOSE p \in 1..n : keys[p] = g
        chosen(g) == (i \div (2 ^ (n - pos(g)))) % 2 = 1
    IN  SelectSeq(keys, chosen)

\* C1: the list invite_to_dinner returns is a valid subset of the keys, and no
\* valid subset of the keys is larger.
C1_InviteListValidAndMaximum ==
    pc = "invite_to_dinner" =>
        LET edges == find_dislikes(friends)
        IN  /\ Elems(invite_list) \subseteq KeySet
            /\ Cardinality(Elems(invite_list)) = Len(invite_list)
            /\ ValidFor(edges, Elems(invite_list))
            /\ \A S \in SUBSET KeySet :
                  ValidFor(edges, S) => Cardinality(S) <= Len(invite_list)

\* A mapping of three guests with a dislike, where some but not all are invited.
C1_Witness ==
    /\ pc = "invite_to_dinner"
    /\ Len(friends) = 3
    /\ Cardinality(find_dislikes(friends)) >= 2
    /\ Len(invite_list) = 2

\* C2: invite_to_dinner and invite_to_dinner_optimized return lists of equal
\* length for the same mapping, also when a pair is listed in one direction.
C2_SameLength ==
    pc = "invite_to_dinner_optimized" =>
        Len(invite_list) = Len(invite_to_dinner(friends))

\* C3: the list invite_to_dinner_optimized returns contains no dislike edge.
C3_OptimizedValid ==
    pc = "invite_to_dinner_optimized" => ValidSet(Elems(invite_list))

\* C4: the set find_dislikes returns never holds a pair of distinct guests in
\* both orders.
C4_NoPairTwice ==
    pc = "find_dislikes" =>
        \A pair \in dislikes : pair[1] # pair[2] => <<pair[2], pair[1]>> \notin dislikes

\* A pair is listed in both directions, and the set holds it.
C4_Witness ==
    /\ pc = "find_dislikes"
    /\ \E i, j \in 1..Len(friends) :
          /\ i # j
          /\ InList(friends[j][1], friends[i][2])
          /\ InList(friends[i][1], friends[j][2])
          /\ <<friends[i][1], friends[j][1]>> \in dislikes

\* C5: every edge of find_dislikes is in canonical order: its first guest
\* sorts before its second.
C5_CanonicalOrder ==
    pc = "find_dislikes" => \A pair \in dislikes : StrLess(pair[1], pair[2])

\* C6: generate_all_subsets returns 2^N entries, pairwise distinct as sets (as
\* many sets as entries), and the sets are exactly the subsets of the keys, so
\* every subset occurs exactly once, the empty and the full one included.
C6_AllSubsetsOnce ==
    pc = "generate_all_subsets" =>
        LET count == Len(all_subsets)
            sets == {Elems(all_subsets[i]) : i \in 1..count}
        IN  /\ count = 2 ^ Len(friends)
            /\ Cardinality(sets) = count
            /\ sets = SUBSET KeySet
            /\ {} \in sets
            /\ KeySet \in sets

\* The subsets of three guests have been generated.
C6_Witness ==
    /\ pc = "generate_all_subsets"
    /\ Len(friends) = 3
    /\ Len(all_subsets) = 8

\* C7: filter_bad_invites returns exactly the entries of the list it was
\* handed that hold no dislike edge, in their order.
C7_FilterExact ==
    pc = "filter_bad_invites" =>
        LET keeps(set) == ValidSet(Elems(set))
        IN  good_invites = SelectSeq(passed, keeps)

\* The list handed over holds an entry with a dislike edge twice and an entry
\* without one between the two.
C7_Witness ==
    /\ pc = "filter_bad_invites"
    /\ \E i, j, k \in 1..Len(passed) :
          /\ i < k /\ k < j
          /\ passed[i] = passed[j]
          /\ ~ValidSet(Elems(passed[i]))
          /\ ValidSet(Elems(passed[k]))
          /\ good_invites = <<passed[k]>>

\* C8: filter_no_dislikes returns as isolated only guests that are in no edge
\* of find_dislikes, every other key is in the reduced mapping, and the
\* reduced mapping is the entangled guests' entries, unchanged.
C8_PartitionByEdges ==
    pc = "filter_no_dislikes" =>
        LET entangled(item) == Entangled(item[1])
        IN  /\ \A i \in 1..Len(reduced[1]) : ~Entangled(reduced[1][i])
            /\ \A g \in KeySet : ~InList(g, reduced[1]) => InList(g, Keys(reduced[2]))
            /\ reduced[2] = SelectSeq(friends, entangled)

\* C9: invite_to_dinner returns the valid subset of maximum size that comes
\* first in the enumeration order.
C9_FirstFoundWins ==
    pc = "invite_to_dinner" =>
        LET edges == find_dislikes(friends)
            last == 2 ^ Len(friends) - 1
            subset == [i \in 0..last |-> EnumSubset(i)]
            valid == {i \in 0..last : ValidFor(edges, Elems(subset[i]))}
        IN  \E i \in valid :
                /\ invite_list = subset[i]
                /\ \A j \in valid :
                      \/ Len(subset[j]) < Len(subset[i])
                      \/ Len(subset[j]) = Len(subset[i]) /\ i <= j

\* Another valid subset is as large as the one returned.
C9_Witness ==
    /\ pc = "invite_to_dinner"
    /\ Len(invite_list) >= 1
    /\ \E S \in SUBSET KeySet :
          /\ ValidSet(S)
          /\ Cardinality(S) = Len(invite_list)
          /\ S # Elems(invite_list)

\* C10: a call of filter_bad_invites leaves the caller's all_subsets with the
\* same entries in the same order, and leaves friends as it was.
C10_InputsUnchanged ==
    [][FilterBadInvites => (all_subsets' = all_subsets /\ friends' = friends)]_vars

====
